---- MODULE Spec2Model ----
(***************************************************************************)
(* Model of bot.py (Equilibrio WhatsApp bot): the per-sender message       *)
(* buffer with its debounce timers (whatsapp_webhook,                      *)
(* process_buffered_messages, cleanup_old_sessions) and the booking        *)
(* orchestrator (generate_response, handle_appointment_booking and the     *)
(* pending-confirmation store).                                            *)
(*                                                                         *)
(* Spec        : the message buffer. Threads are the Flask request         *)
(*               handlers and the threading.Timer threads; every step of   *)
(*               a thread that another thread can observe is one action.   *)
(* SpecBooking : the orchestrator. A turn is one call of                   *)
(*               generate_response; turns of any senders interleave at     *)
(*               every database, calendar and oracle call. The oracle      *)
(*               answers anything, so what only feeds its prompt (the      *)
(*               messages table, the list of free slots) is left out.      *)
(* SpecDialogue: the orchestrator with one turn at a time and every        *)
(*               message of the model.                                     *)
(* SpecCalls   : validate_business_hours, get_available_slots and the      *)
(*               field checks of handle_appointment_booking, one call a    *)
(*               run, over the arguments, times and calendars of the model.*)
(***************************************************************************)
EXTENDS Integers, Sequences, FiniteSets, TLC

(***************************************************************************)
(* Bounds of the model                                                     *)
(***************************************************************************)
\* inbound webhook requests over a run
MaxMsgs == 3
\* one-second clock ticks over a run
MaxTicks == 11
\* idle periods (as long as the session timeout) over a run
MaxJumps == 1

(***************************************************************************)
(* Program constants                                                       *)
(***************************************************************************)
Senders == {"a", "b"}
\* BUFFER_DELAY = 5 (seconds)
BUFFER_DELAY == 5
\* timeout = 30 * 60 in cleanup_old_sessions
SESSION_TIMEOUT == 30 * 60

VARIABLES
    \* ---- message buffer ----
    MESSAGE_BUFFER,   \* phone -> index of its session object in sessions, 0: no key
    sessions,         \* the session objects ever created (some no longer in the dict)
    timers,           \* the threading.Timer objects ever started, with their thread
    handlers,         \* the whatsapp_webhook requests, each on its own thread
    now,              \* time.time(), in seconds
    ticks,            \* how many times the clock advanced by one second
    jumps,            \* how many long idle periods passed
    turns,            \* the calls generate_response(combined_message, from_phone)
    enqueued,         \* per message (handler index): when it was appended, and its burst
    \* ---- booking orchestrator ----
    pending_confirmations,  \* table pending_confirmations: phone -> row, or NoPending
    calendar,               \* the events of the Google calendar, in creation order
    appointments,           \* table appointments, in insertion order
    conversations,          \* table conversations: phone -> state and context
    gturns,                 \* the turns (calls of generate_response) in progress, in
                            \* the order they started
    started,                \* how many turns have started
    saves,                  \* how many pending confirmations have been saved
    faults,                 \* how many calls have raised
    clock,                  \* the wall clock, in minutes since Monday 00:00
    clockTicks,             \* how many times the wall clock advanced
    sent,                   \* how many replies went to send_whatsapp_message
    \* ---- the run ----
    messages,               \* the messages the senders may send
    threads,                \* how many turns may be in progress at the same time
    \* ---- calls of the functions of the booking, one by one ----
    query,                  \* the function called and its arguments
    answer                  \* what it returned, once it has

bufferVars == <<MESSAGE_BUFFER, sessions, timers, handlers, now, ticks, jumps,
                turns, enqueued>>

bookingVars == <<pending_confirmations, calendar, appointments, conversations, gturns,
                 started, saves, faults, clock, clockTicks, sent>>

runVars == <<messages, threads>>

callVars == <<query, answer>>

vars == <<bufferVars, bookingVars, runVars, callVars>>

(***************************************************************************)
(* Message buffer                                                          *)
(***************************************************************************)
NoHolder == [kind |-> "none", id |-> 0]
HandlerThread(h) == [kind |-> "handler", id |-> h]
TimerThread(j) == [kind |-> "timer", id |-> j]

\* the lambda of the defaultdict: a fresh session object
NewSession == [messages |-> <<>>, timer |-> 0, lock |-> NoHolder, last_activity |-> now]

\* Timer.cancel(): sets the finished event. Timer.run tests it once, when its wait
\* ends; a timer that already passed that test runs its function regardless.
Cancel(tms, j) ==
    IF j # 0 /\ tms[j].pc = "waiting" THEN [tms EXCEPT ![j].pc = "cancelled"] ELSE tms

\* A timer whose interval has elapsed and whose thread has not yet woken.
Due == \E j \in 1..Len(timers) : timers[j].pc = "waiting" /\ timers[j].deadline <= now

\* MESSAGE_BUFFER[phone] on the defaultdict: the key's session, created when missing.
\* Gives <<the dict, the objects, the session's index>>.
Lookup(phone) ==
    IF MESSAGE_BUFFER[phone] # 0
    THEN <<MESSAGE_BUFFER, sessions, MESSAGE_BUFFER[phone]>>
    ELSE <<[MESSAGE_BUFFER EXCEPT ![phone] = Len(sessions) + 1],
           Append(sessions, NewSession),
           Len(sessions) + 1>>

\* the phones cleanup_old_sessions collects in to_remove
ToRemove ==
    {p \in Senders : MESSAGE_BUFFER[p] # 0
                     /\ now - sessions[MESSAGE_BUFFER[p]].last_activity > SESSION_TIMEOUT}

RECURSIVE CancelAll(_, _)
CancelAll(tms, js) ==
    IF js = {} THEN tms
    ELSE LET j == CHOOSE x \in js : TRUE IN CancelAll(Cancel(tms, j), js \ {j})

\* Senders are interchangeable: the first request of a run is FirstSender's.
FirstSender == "a"

\* A request arrives: Flask starts whatsapp_webhook on a thread of its own. The
\* message is identified by the index of its handler.
Arrive(p) ==
    /\ ~Due
    /\ Len(handlers) < MaxMsgs
    /\ p = FirstSender \/ handlers # <<>>
    /\ handlers' = Append(handlers, [phone |-> p, pc |-> "cleanup", session |-> 0])
    /\ UNCHANGED <<MESSAGE_BUFFER, sessions, timers, now, ticks, jumps, turns, enqueued>>

\* cleanup_old_sessions(), called by the handler before it touches the buffer
cleanup_old_sessions(h) ==
    /\ ~Due
    /\ handlers[h].pc = "cleanup"
    /\ timers' = CancelAll(timers, {sessions[MESSAGE_BUFFER[p]].timer : p \in ToRemove})
    /\ MESSAGE_BUFFER' = [p \in Senders |-> IF p \in ToRemove THEN 0 ELSE MESSAGE_BUFFER[p]]
    /\ handlers' = [handlers EXCEPT ![h].pc = "lookup"]
    /\ UNCHANGED <<sessions, now, ticks, jumps, turns, enqueued>>

\* session = MESSAGE_BUFFER[from_phone]
WebhookLookup(h) ==
    /\ ~Due
    /\ handlers[h].pc = "lookup"
    /\ LET r == Lookup(handlers[h].phone) IN
        /\ MESSAGE_BUFFER' = r[1]
        /\ sessions' = r[2]
        /\ handlers' = [handlers EXCEPT ![h].pc = "acquire", ![h].session = r[3]]
    /\ UNCHANGED <<timers, now, ticks, jumps, turns, enqueued>>

\* with session['lock']: (entering)
WebhookAcquire(h) ==
    /\ ~Due
    /\ handlers[h].pc = "acquire"
    /\ sessions[handlers[h].session].lock = NoHolder
    /\ sessions' = [sessions EXCEPT ![handlers[h].session].lock = HandlerThread(h)]
    /\ handlers' = [handlers EXCEPT ![h].pc = "critical"]
    /\ UNCHANGED <<MESSAGE_BUFFER, timers, now, ticks, jumps, turns, enqueued>>

\* the burst a message appended now by phone p belongs to: its predecessor's when
\* it comes strictly within BUFFER_DELAY of it, else a new one
BurstOf(p) ==
    LET prev == {m \in DOMAIN enqueued : enqueued[m].phone = p}
        last == CHOOSE m \in prev : \A k \in prev : enqueued[k].seq <= enqueued[m].seq
    IN  IF prev # {} /\ now - enqueued[last].at < BUFFER_DELAY
        THEN enqueued[last].burst
        ELSE Cardinality({enqueued[m].burst : m \in DOMAIN enqueued}) + 1

\* the body of the with block of whatsapp_webhook: append, cancel, reschedule
WebhookEnqueue(h) ==
    LET s == handlers[h].session
        new == Len(timers) + 1
    IN
    /\ ~Due
    /\ handlers[h].pc = "critical"
    /\ timers' = Append(Cancel(timers, sessions[s].timer),
                        [phone |-> handlers[h].phone, deadline |-> now + BUFFER_DELAY,
                         pc |-> "waiting", session |-> 0, combined |-> <<>>])
    /\ sessions' = [sessions EXCEPT ![s].messages = Append(@, h),
                                    ![s].last_activity = now,
                                    ![s].timer = new,
                                    ![s].lock = NoHolder]
    /\ handlers' = [handlers EXCEPT ![h].pc = "done"]
    /\ enqueued' = [m \in DOMAIN enqueued \cup {h} |->
                      IF m = h
                      THEN [phone |-> handlers[h].phone, at |-> now,
                            seq |-> Cardinality(DOMAIN enqueued) + 1,
                            burst |-> BurstOf(handlers[h].phone)]
                      ELSE enqueued[m]]
    /\ UNCHANGED <<MESSAGE_BUFFER, now, ticks, jumps, turns>>

\* Timer.run: the wait of BUFFER_DELAY seconds ends with the finished event not set,
\* and the thread goes on to call process_buffered_messages(from_phone).
TimerFire(j) ==
    /\ timers[j].pc = "waiting"
    /\ timers[j].deadline <= now
    /\ timers' = [timers EXCEPT ![j].pc = "lookup"]
    /\ UNCHANGED <<MESSAGE_BUFFER, sessions, handlers, now, ticks, jumps, turns, enqueued>>

\* session = MESSAGE_BUFFER[from_phone]  (process_buffered_messages)
ProcessLookup(j) ==
    /\ ~Due
    /\ timers[j].pc = "lookup"
    /\ LET r == Lookup(timers[j].phone) IN
        /\ MESSAGE_BUFFER' = r[1]
        /\ sessions' = r[2]
        /\ timers' = [timers EXCEPT ![j].pc = "acquire", ![j].session = r[3]]
    /\ UNCHANGED <<handlers, now, ticks, jumps, turns, enqueued>>

\* with session['lock']: (entering)
ProcessAcquire(j) ==
    /\ ~Due
    /\ timers[j].pc = "acquire"
    /\ sessions[timers[j].session].lock = NoHolder
    /\ sessions' = [sessions EXCEPT ![timers[j].session].lock = TimerThread(j)]
    /\ timers' = [timers EXCEPT ![j].pc = "critical"]
    /\ UNCHANGED <<MESSAGE_BUFFER, handlers, now, ticks, jumps, turns, enqueued>>

\* a process_buffered_messages without the return on an empty buffer
ProcessDrain_eager(j) ==
    LET s == timers[j].session IN
    /\ ~Due
    /\ timers[j].pc = "critical"
    /\ sessions' = [sessions EXCEPT ![s].messages = <<>>,
                                    ![s].timer = 0,
                                    ![s].lock = NoHolder]
    /\ timers' = [timers EXCEPT ![j].pc = "save_incoming",
                                ![j].combined = sessions[s].messages]
    /\ UNCHANGED <<MESSAGE_BUFFER, handlers, now, ticks, jumps, turns, enqueued>>

\* a process_buffered_messages whose with block spans the whole function: the lock
\* stays with the timer thread when it goes on to save and answer
ProcessDrain_locked(j) ==
    LET s == timers[j].session IN
    /\ ~Due
    /\ timers[j].pc = "critical"
    /\ IF sessions[s].messages = <<>>
       THEN /\ sessions' = [sessions EXCEPT ![s].lock = NoHolder]
            /\ timers' = [timers EXCEPT ![j].pc = "done"]
       ELSE /\ sessions' = [sessions EXCEPT ![s].messages = <<>>,
                                            ![s].timer = 0]
            /\ timers' = [timers EXCEPT ![j].pc = "save_incoming",
                                        ![j].combined = sessions[s].messages]
    /\ UNCHANGED <<MESSAGE_BUFFER, handlers, now, ticks, jumps, turns, enqueued>>

\* the body of the with block of process_buffered_messages: return on an empty
\* buffer, else join, clear the buffer and the timer reference
ProcessDrain(j) ==
    LET s == timers[j].session IN
    /\ ~Due
    /\ timers[j].pc = "critical"
    /\ IF sessions[s].messages = <<>>
       THEN /\ sessions' = [sessions EXCEPT ![s].lock = NoHolder]
            /\ timers' = [timers EXCEPT ![j].pc = "done"]
       ELSE /\ sessions' = [sessions EXCEPT ![s].messages = <<>>,
                                            ![s].timer = 0,
                                            ![s].lock = NoHolder]
            /\ timers' = [timers EXCEPT ![j].pc = "save_incoming",
                                        ![j].combined = sessions[s].messages]
    /\ UNCHANGED <<MESSAGE_BUFFER, handlers, now, ticks, jumps, turns, enqueued>>

\* save_message(from_phone, 'incoming', combined_message)
ProcessSaveIncoming(j) ==
    /\ ~Due
    /\ timers[j].pc = "save_incoming"
    /\ timers' = [timers EXCEPT ![j].pc = "generate"]
    /\ UNCHANGED <<MESSAGE_BUFFER, sessions, handlers, now, ticks, jumps, turns, enqueued>>

\* response = generate_response(combined_message, from_phone)
ProcessGenerate(j) ==
    /\ ~Due
    /\ timers[j].pc = "generate"
    /\ turns' = Append(turns, [phone |-> timers[j].phone, lines |-> timers[j].combined,
                               timer |-> j])
    /\ timers' = [timers EXCEPT ![j].pc = "deliver"]
    /\ UNCHANGED <<MESSAGE_BUFFER, sessions, handlers, now, ticks, jumps, enqueued>>

\* save_message(from_phone, 'outgoing', response); send_whatsapp_message(...)
ProcessDeliver(j) ==
    /\ ~Due
    /\ timers[j].pc = "deliver"
    /\ timers' = [timers EXCEPT ![j].pc = "done"]
    /\ UNCHANGED <<MESSAGE_BUFFER, sessions, handlers, now, ticks, jumps, turns, enqueued>>

\* the sessions of the dict that are exactly SESSION_TIMEOUT old: the next second
\* makes them removable
AtTimeout ==
    \E p \in Senders : /\ MESSAGE_BUFFER[p] # 0
                       /\ now - sessions[MESSAGE_BUFFER[p]].last_activity = SESSION_TIMEOUT

\* no request is being handled and no timer is waiting or running its callback
Quiescent ==
    /\ \A h \in 1..Len(handlers) : handlers[h].pc = "done"
    /\ \A j \in 1..Len(timers) : timers[j].pc \in {"cancelled", "done"}

\* One second passes. A timer wakes when its interval elapses: time does not pass a
\* deadline with the timer still waiting. Seconds are counted while a timer waits and
\* when a session crosses the idle timeout; elsewhere the passing of time shows only
\* in Idle. The critical sections are short: no second passes inside one.
Tick ==
    /\ ~Due
    /\ \A s \in 1..Len(sessions) : sessions[s].lock = NoHolder
    /\ ticks < MaxTicks
    /\ (\E j \in 1..Len(timers) : timers[j].pc = "waiting") \/ AtTimeout
    /\ now' = now + 1
    /\ ticks' = ticks + 1
    /\ UNCHANGED <<MESSAGE_BUFFER, sessions, timers, handlers, jumps, turns, enqueued>>

\* With nothing going on, time passes until a session of the dict is SESSION_TIMEOUT
\* old: the last instant at which cleanup_old_sessions keeps it.
Idle ==
    /\ Quiescent
    /\ jumps < MaxJumps
    /\ \E p \in Senders :
        /\ MESSAGE_BUFFER[p] # 0
        /\ sessions[MESSAGE_BUFFER[p]].last_activity + SESSION_TIMEOUT > now
        /\ now' = sessions[MESSAGE_BUFFER[p]].last_activity + SESSION_TIMEOUT
    /\ jumps' = jumps + 1
    /\ UNCHANGED <<MESSAGE_BUFFER, sessions, timers, handlers, ticks, turns, enqueued>>

InitBuffer ==
    /\ MESSAGE_BUFFER = [p \in Senders |-> 0]
    /\ sessions = <<>>
    /\ timers = <<>>
    /\ handlers = <<>>
    /\ now = 0
    /\ ticks = 0
    /\ jumps = 0
    /\ turns = <<>>
    /\ enqueued = [m \in {} |-> 0]

NextBuffer ==
    \/ \E p \in Senders : Arrive(p) /\ UNCHANGED <<bookingVars, runVars, callVars>>
    \/ \E h \in 1..Len(handlers) : cleanup_old_sessions(h) /\ UNCHANGED <<bookingVars, runVars, callVars>>
    \/ \E h \in 1..Len(handlers) : WebhookLookup(h) /\ UNCHANGED <<bookingVars, runVars, callVars>>
    \/ \E h \in 1..Len(handlers) : WebhookAcquire(h) /\ UNCHANGED <<bookingVars, runVars, callVars>>
    \/ \E h \in 1..Len(handlers) : WebhookEnqueue(h) /\ UNCHANGED <<bookingVars, runVars, callVars>>
    \/ \E j \in 1..Len(timers) : TimerFire(j) /\ UNCHANGED <<bookingVars, runVars, callVars>>
    \/ \E j \in 1..Len(timers) : ProcessLookup(j) /\ UNCHANGED <<bookingVars, runVars, callVars>>
    \/ \E j \in 1..Len(timers) : ProcessAcquire(j) /\ UNCHANGED <<bookingVars, runVars, callVars>>
    \/ \E j \in 1..Len(timers) : ProcessDrain(j) /\ UNCHANGED <<bookingVars, runVars, callVars>>
    \/ \E j \in 1..Len(timers) : ProcessSaveIncoming(j) /\ UNCHANGED <<bookingVars, runVars, callVars>>
    \/ \E j \in 1..Len(timers) : ProcessGenerate(j) /\ UNCHANGED <<bookingVars, runVars, callVars>>
    \/ \E j \in 1..Len(timers) : ProcessDeliver(j) /\ UNCHANGED <<bookingVars, runVars, callVars>>
    \/ Tick /\ UNCHANGED <<bookingVars, runVars, callVars>>
    \/ Idle /\ UNCHANGED <<bookingVars, runVars, callVars>>

(***************************************************************************)
(* Booking orchestrator: strings                                           *)
(*                                                                         *)
(* A name or a contact is the sequence of its characters. A user message   *)
(* is the sequence of its words (what \b...\b of the two regular           *)
(* expressions of generate_response can match).                            *)
(***************************************************************************)
Digits == {"0", "1", "2", "3", "4", "5", "6", "7", "8", "9"}
Letters == {"a", "b", "c", "n", "o", "t", "A", "S"}
\* \w of the regular expressions
WordChars == Digits \cup Letters \cup {"_"}
Whitespace == {" ", "\t", "\n"}

\* len(name.split())
TokenCount(str) ==
    Cardinality({i \in 1..Len(str) :
                    str[i] \notin Whitespace /\ (i = 1 \/ str[i - 1] \in Whitespace)})

\* contact.replace('+', '').replace(' ', '').replace('-', '')
contact_clean(contact) == SelectSeq(contact, LAMBDA c : c \notin {"+", " ", "-"})

\* str.isdigit(): not empty, digits only
isdigit(str) == str # <<>> /\ \A i \in 1..Len(str) : str[i] \in Digits

\* a check that takes seven digits for a phone
is_phone_short(contact) ==
    isdigit(contact_clean(contact)) /\ Len(contact_clean(contact)) >= 7

is_phone(contact) == isdigit(contact_clean(contact)) /\ Len(contact_clean(contact)) >= 8

\* re.match(r'^[\w\.-]+@[\w\.-]+\.\w+$', contact)
is_email(contact) ==
    LET part(lo, hi) == lo <= hi /\ \A i \in lo..hi : contact[i] \in WordChars \cup {".", "-"}
        word(lo, hi) == lo <= hi /\ \A i \in lo..hi : contact[i] \in WordChars
    IN  \E a, d \in 1..Len(contact) :
            /\ contact[a] = "@"
            /\ contact[d] = "."
            /\ part(1, a - 1)
            /\ part(a + 1, d - 1)
            /\ word(d + 1, Len(contact))

\* user_message.lower(), word by word
lower(w) == CASE w = "Sí" -> "sí" [] w = "No" -> "no" [] w = "Dale" -> "dale" [] OTHER -> w

\* re.search(r'\b(s[ií]|confirmo|dale|ok|okay|correcto)\b', user_message.lower())
IsAffirmative(msg) ==
    \E i \in 1..Len(msg) :
        lower(msg[i]) \in {"si", "sí", "confirmo", "dale", "ok", "okay", "correcto"}

\* re.search(r'\b(no|no quiero|diferentes|cada \d+ d[ií]as|semanal|mensual)\b',
\*           user_message.lower())
IsPreference(msg) ==
    \/ \E i \in 1..Len(msg) : lower(msg[i]) \in {"no", "diferentes", "semanal", "mensual"}
    \/ \E i \in 1..(Len(msg) - 2) :
        /\ lower(msg[i]) = "cada"
        /\ isdigit(<<lower(msg[i + 1])>>)
        /\ lower(msg[i + 2]) \in {"dias", "días"}

(***************************************************************************)
(* Booking orchestrator: time                                              *)
(*                                                                         *)
(* A datetime is a number of minutes since Monday 00:00 of the first week, *)
(* in the clinic's timezone; day d is a Monday when d % 7 = 0, as          *)
(* datetime.weekday() counts.                                              *)
(***************************************************************************)
MinutesPerHour == 60
MinutesPerDay == 24 * MinutesPerHour
weekday(dt) == (dt \div MinutesPerDay) % 7
hour(dt) == (dt % MinutesPerDay) \div MinutesPerHour

\* validate_business_hours(dt) at time nowv: "ok" for None, else the reply
validate_business_hours(dt, nowv) ==
    IF dt < nowv THEN "ya_paso"
    ELSE IF weekday(dt) = 0 THEN "cerrados_lunes"
    ELSE IF weekday(dt) = 6 THEN "cerrados_domingos"
    ELSE IF weekday(dt) \in {1, 3} /\ ~(15 <= hour(dt) /\ hour(dt) < 19) THEN "mar_jue_15_19"
    ELSE IF weekday(dt) \in {2, 4} /\ ~(10 <= hour(dt) /\ hour(dt) < 18) THEN "mie_vie_10_18"
    ELSE IF weekday(dt) = 5 /\ ~(10 <= hour(dt) /\ hour(dt) < 13) THEN "sabados_10_13"
    ELSE "ok"

\* the busy intervals the free/busy query returns for [start_dt, end_dt): every
\* event is one hour long
Busy(start_dt, end_dt) ==
    {e \in 1..Len(calendar) :
        calendar[e].start < end_dt /\ calendar[e].start + MinutesPerHour > start_dt}

\* check_freebusy(start_dt, end_dt): len(busy) > 0, and False when the query raises
check_freebusy(outcome, start_dt, end_dt) ==
    IF outcome = "raises" THEN FALSE ELSE Busy(start_dt, end_dt) # {}

(***************************************************************************)
(* Booking orchestrator: data                                              *)
(***************************************************************************)
\* turns (calls of generate_response) over a run
MaxTurns == 3
\* turns in progress at the same time
MaxThreads == 2
\* advances of the wall clock over a run
MaxClockTicks == 2

\* calls that raise in a run
MaxFaults == 1

\* timedelta(minutes=10) of save_pending_confirmation
PENDING_TTL == 10
\* one advance of the wall clock: one is within the TTL, two are beyond it
ClockStep == (PENDING_TTL \div 2) + 1
\* the run starts on a Tuesday at 09:00
ClockStart == MinutesPerDay + 9 * MinutesPerHour

AnaSoto == <<"A", "n", "a", " ", "S", "o", "t", "o">>
Ana == <<"A", "n", "a">>
Phone8 == <<"+", "5", "6", " ", "9", "1", "2", "3", "4", "5">>
Phone7 == <<"1", "2", "3", "4", "5", "6", "7">>
Email == <<"a", "@", "b", ".", "c", "o">>

\* date: the form of the string (iso: YYYY-MM-DD, dmy: DD-MM-YYYY or DD/MM/YYYY,
\* words: a date spelled out, bad: anything else strptime rejects) and the day it names; time: minutes after
\* midnight, -1 for a string strptime rejects
Date(form, day) == [form |-> form, day |-> day]
Data(name, contact, date, time) ==
    [name |-> name, contact |-> contact, date |-> date, time |-> time]

\* days: 1 is the Tuesday the run starts on, 2 the Wednesday after it, 7 the next Monday
Wed1000 == Data(AnaSoto, Phone8, Date("iso", 2), 10 * MinutesPerHour)
OneName == Data(Ana, Phone8, Date("iso", 2), 10 * MinutesPerHour)
ShortPhone == Data(AnaSoto, Phone7, Date("iso", 2), 10 * MinutesPerHour)
ClosedDay == Data(AnaSoto, Email, Date("dmy", 7), 10 * MinutesPerHour)
MondayInWords == Data(AnaSoto, Phone8, Date("words", 7), 10 * MinutesPerHour)

\* what the oracle (model.generate_content) may answer
OracleOutputs ==
    {[kind |-> "raises"], [kind |-> "empty"], [kind |-> "unknown_tool"]}
    \cup {[kind |-> "book_single_appointment", args |-> d] :
            d \in {Wed1000, ShortPhone}}
    \cup {[kind |-> "book_multiple_appointments", name |-> AnaSoto, contact |-> Phone8,
           appointments |-> l] :
            l \in {<<>>,
                   <<[date |-> ClosedDay.date, time |-> ClosedDay.time],
                     [date |-> Wed1000.date, time |-> Wed1000.time]>>}}
    \cup {[kind |-> "text", question |-> FALSE]}
    \* a reply with the confirmation question; summary: the fields the four regular
    \* expressions find in it (fields: whether all four match), numeric: whether the
    \* Fecha line holds a DD/MM/YYYY date
    \cup {[kind |-> "text", question |-> TRUE, fields |-> TRUE, numeric |-> TRUE,
           summary |-> d] : d \in {Wed1000, OneName, ClosedDay}}
    \cup {[kind |-> "text", question |-> TRUE, fields |-> FALSE, numeric |-> TRUE,
           summary |-> Wed1000],
          [kind |-> "text", question |-> TRUE, fields |-> TRUE, numeric |-> FALSE,
           summary |-> MondayInWords]}

UserMessages == {<<"Sí">>, <<"no">>, <<"tal", "vez">>, <<"estoy", "embarazada">>}

NoPending == [id |-> 0]
NoOracle == [kind |-> "none"]

(***************************************************************************)
(* Pending-confirmation store                                              *)
(***************************************************************************)
\* an upsert that leaves the expiry of an existing row as it is
save_pending_confirmation_merged(store, phone, appointment_data, id) ==
    [store EXCEPT ![phone] =
        IF @ = NoPending
        THEN [id |-> id, appointment_data |-> appointment_data,
              expires_at |-> clock + PENDING_TTL]
        ELSE [@ EXCEPT !.appointment_data = appointment_data]]

\* save_pending_confirmation(phone, appointment_data): the upsert. id numbers the
\* rows written.
save_pending_confirmation(store, phone, appointment_data, id) ==
    [store EXCEPT ![phone] = [id |-> id, appointment_data |-> appointment_data,
                              expires_at |-> clock + PENDING_TTL]]

\* a SELECT without the test on expires_at
get_pending_confirmation_any(phone, NOW) == pending_confirmations[phone]

\* get_pending_confirmation(phone): the row WHERE expires_at > NOW(), or None
get_pending_confirmation(phone, NOW) ==
    IF /\ pending_confirmations[phone] # NoPending
       /\ pending_confirmations[phone].expires_at > NOW
    THEN pending_confirmations[phone]
    ELSE NoPending

\* a DELETE that removes nothing
clear_pending_confirmation_kept(store, phone) == store

\* clear_pending_confirmation(phone): the DELETE
clear_pending_confirmation(store, phone) == [store EXCEPT ![phone] = NoPending]

(***************************************************************************)
(* generate_response(user_message, from_phone) and                         *)
(* handle_appointment_booking(data)                                        *)
(*                                                                         *)
(* One action is one call to the database, the calendar or the oracle,     *)
(* with the code that follows it up to the next such call.                 *)
(***************************************************************************)
\* a turn as it starts
NewTurn ==
    [pc |-> "start", phone |-> "", user_message |-> <<>>, pending |-> NoPending,
     bot_response |-> NoOracle, path |-> "none", queue |-> <<>>, results |-> <<>>,
     log |-> <<>>, event_id |-> 0, reply |-> <<>>, atEnd |-> NoPending]

\* generate_response returns `reply` on turn record tr. The record keeps what the turn
\* read and answered, and atEnd: what the store then holds for the sender.
Finish(tr, reply, store) ==
    [NewTurn EXCEPT !.pc = "done", !.phone = tr.phone, !.user_message = tr.user_message,
                     !.pending = tr.pending, !.bot_response = tr.bot_response,
                     !.path = tr.path, !.reply = reply, !.atEnd = store[tr.phone]]

\* the checks on name and contact, then the parse of date and time: "ok", or the
\* reply handle_appointment_booking returns
FieldCheck(data) ==
    IF TokenCount(data.name) < 2 THEN "nombre_y_apellido"
    ELSE IF ~(is_phone(data.contact) \/ is_email(data.contact)) THEN "telefono_o_email"
    ELSE IF data.date.form \notin {"iso", "dmy"} \/ data.time < 0 THEN "error_fecha_hora"
    ELSE "ok"

\* dt = TZ.localize(strptime(f"{date_str} {time_str}")): both forms of date name
\* the same day once DD-MM-YYYY is reordered
AppointmentTime(data) == data.date.day * MinutesPerDay + data.time

\* a handler that goes on to the free/busy query whatever validate_business_hours
\* returns
AfterValidate_unchecked(error) == "check_freebusy"

\* error = validate_business_hours(dt); if error: return error
AfterValidate(error) == IF error # "ok" THEN "return" ELSE "check_freebusy"

\* if check_freebusy(dt, end_dt): return "ya está ocupado"
AfterFreebusy(busy) == IF busy THEN "return" ELSE "create_appointment"

\* event_id = create_appointment(...) raised: the except clause returns, and
\* save_appointment is not reached
AfterCreate(raised) == IF raised THEN "return" ELSE "save_appointment"

\* handle_appointment_booking is called for each appointment of tr.queue in turn:
\* lines 791-828, the field checks and validate_business_hours, up to the free/busy
\* query of the first appointment that passes them; after the last appointment the
\* caller goes on to clear_pending_confirmation
RECURSIVE Book(_)
Book(tr) ==
    IF tr.queue = <<>> THEN [tr EXCEPT !.pc = "clear", !.log = <<>>, !.event_id = 0]
    ELSE LET data == Head(tr.queue)
             error == validate_business_hours(AppointmentTime(data), clock)
             return(result) == Book([tr EXCEPT !.results = Append(@, result),
                                               !.queue = Tail(@)])
         IN  IF FieldCheck(data) # "ok" THEN return(FieldCheck(data))
             ELSE IF AfterValidate(error) = "return" THEN return(error)
             ELSE [tr EXCEPT !.pc = "check_freebusy",
                             !.event_id = 0,
                             !.log = <<[call |-> "validate_business_hours",
                                        result |-> error]>>]

\* handle_appointment_booking has returned `result`
Returned(tr, result) ==
    Book([tr EXCEPT !.results = Append(@, result), !.queue = Tail(@)])

\* no turn has its reply in hand
NoneDone == \A t \in DOMAIN gturns : gturns[t].pc # "done"

\* a call raises, at most MaxFaults times in a run
Raises(raised) ==
    /\ raised => faults < MaxFaults
    /\ faults' = IF raised THEN faults + 1 ELSE faults

\* lines 830-831: the free/busy query, which answers or raises
BookingFreebusy(t, outcome) ==
    LET tr == gturns[t]
        dt == AppointmentTime(Head(tr.queue))
        busy == check_freebusy(outcome, dt, dt + MinutesPerHour)
    IN
    /\ NoneDone
    /\ tr.pc = "check_freebusy"
    /\ Raises(outcome = "raises")
    /\ gturns' = [gturns EXCEPT ![t] =
          IF AfterFreebusy(busy) = "return" THEN Returned(tr, "ya_ocupado")
          ELSE [tr EXCEPT !.pc = "create_appointment",
                          !.log = Append(@, [call |-> "check_freebusy",
                                             result |-> IF busy THEN "busy" ELSE "free"])]]
    /\ UNCHANGED <<pending_confirmations, calendar, appointments, conversations, started, saves, clock, clockTicks, sent>>

\* create_appointment: events().insert(...).execute() inserts the event and the
\* function returns result.get('id'), which is None when the answer holds no id; or the
\* call raises, and the function raises in turn
CreateOutcomes == {"created", "no_id", "raises"}

\* line 834: create_appointment inserts the event and returns its id, the event is
\* inserted and no id comes back, or the call raises. An event_id of 0 is None.
BookingCreate(t, outcome) ==
    LET tr == gturns[t]
        dt == AppointmentTime(Head(tr.queue))
    IN
    /\ NoneDone
    /\ tr.pc = "create_appointment"
    /\ Raises(outcome # "created")
    /\ IF AfterCreate(outcome = "raises") = "return"
       THEN /\ gturns' = [gturns EXCEPT ![t] = Returned(tr, "error_al_agendar")]
            /\ UNCHANGED calendar
       ELSE /\ calendar' = Append(calendar, [start |-> dt, log |-> tr.log])
            /\ gturns' = [gturns EXCEPT ![t] =
                  [tr EXCEPT !.pc = "save_appointment",
                             !.event_id = IF outcome = "no_id" THEN 0
                                          ELSE Len(calendar) + 1,
                             !.log = Append(@, [call |-> "create_appointment",
                                                result |-> "created"])]]
    /\ UNCHANGED <<pending_confirmations, appointments, conversations, started, saves, clock, clockTicks, sent>>

\* lines 835-838: save_appointment inserts the row, or raises
BookingSave(t, raised) ==
    LET tr == gturns[t]
        data == Head(tr.queue)
    IN
    /\ NoneDone
    /\ tr.pc = "save_appointment"
    /\ Raises(raised)
    /\ IF raised
       THEN /\ gturns' = [gturns EXCEPT ![t] = Returned(tr, "error_al_agendar")]
            /\ UNCHANGED appointments
       ELSE /\ appointments' = Append(appointments,
                  [phone |-> tr.phone, patient_name |-> data.name,
                   contact_info |-> data.contact,
                   appointment_time |-> AppointmentTime(data),
                   google_event_id |-> tr.event_id,
                   \* for the claims: the calls of this attempt with their results,
                   \* and the pending confirmation the appointment was booked from
                   log |-> tr.log,
                   pending |-> IF tr.path = "pending" THEN tr.pending.id ELSE 0])
            /\ gturns' = [gturns EXCEPT ![t] = Returned(tr, "listo")]
    /\ UNCHANGED <<pending_confirmations, calendar, conversations, started, saves, clock, clockTicks, sent>>

\* `elapsed` minutes after the last turn started, process_buffered_messages calls
\* generate_response(user_message, from_phone). Lines 394-408: history, context,
\* pending confirmation and the available slots are read, and a message with "no" or a
\* preference marks the conversation; a call that raises ends the turn in the outer
\* except clause. The minutes count against the expiry of a pending
\* confirmation only: the appointments of the model are hours away from the start of
\* the run, before it or after it.
StartTurn(p, msg, elapsed, raised) ==
    /\ NoneDone
    /\ started < MaxTurns
    /\ Len(gturns) < threads
    /\ p = FirstSender \/ started > 0
    /\ elapsed > 0 => /\ clockTicks < MaxClockTicks
                      /\ \E q \in Senders : get_pending_confirmation(q, clock) # NoPending
    /\ Raises(raised)
    /\ clock' = clock + elapsed
    /\ clockTicks' = IF elapsed > 0 THEN clockTicks + 1 ELSE clockTicks
    /\ LET tr == [NewTurn EXCEPT !.phone = p, !.user_message = msg] IN
       gturns' = Append(gturns,
          IF raised THEN Finish(tr, <<"puedes_repetir">>, pending_confirmations)
          ELSE [tr EXCEPT !.pc = "oracle", !.pending = get_pending_confirmation(p, clock')])
    /\ conversations' =
          IF ~raised /\ IsPreference(msg)
          THEN [conversations EXCEPT ![p] =
                    [state |-> "asking_preferences", user_preferences |-> msg]]
          ELSE conversations
    /\ started' = started + 1
    /\ UNCHANGED <<pending_confirmations, calendar, appointments, saves, sent>>

\* a process_buffered_messages that ends without the call of send_whatsapp_message
TurnReturn_unsent(t) ==
    /\ gturns[t].pc = "done"
    /\ gturns' = [i \in 1..(Len(gturns) - 1) |-> IF i < t THEN gturns[i] ELSE gturns[i + 1]]
    /\ UNCHANGED <<pending_confirmations, calendar, appointments, conversations, started, saves, faults, clock, clockTicks, sent>>

\* generate_response has returned: process_buffered_messages saves and sends the
\* reply, and the thread ends. Nothing of the booking is read or written here, so the
\* step is taken as soon as the reply is there.
TurnReturn(t) ==
    /\ gturns[t].pc = "done"
    /\ gturns' = [i \in 1..(Len(gturns) - 1) |-> IF i < t THEN gturns[i] ELSE gturns[i + 1]]
    /\ sent' = sent + 1
    /\ UNCHANGED <<pending_confirmations, calendar, appointments, conversations, started, saves, faults, clock, clockTicks>>

\* lines 686-695: the reply asks for confirmation and the four fields are found
HasSummary(out) == out.kind = "text" /\ out.question /\ out.fields

\* lines 697-713: pending_data, with the date of the summary when it is written
\* DD/MM/YYYY and tomorrow's date otherwise
pending_data(out) ==
    [out.summary EXCEPT !.date =
        IF out.numeric THEN Date("iso", out.summary.date.day)
        ELSE Date("iso", (clock \div MinutesPerDay) + 1)]

\* if pending and re.search(<affirmative>, user_message.lower())
Confirms(tr) == tr.pending # NoPending /\ IsAffirmative(tr.user_message)

\* lines 719-726: with a pending confirmation read at the start of the turn and an
\* affirmative message the pending appointment is booked, else the text is the reply
AfterText(tr, store) ==
    IF Confirms(tr)
    THEN Book([tr EXCEPT !.path = "pending", !.queue = <<tr.pending.appointment_data>>])
    ELSE Finish(tr, <<"bot_response">>, store)

\* lines 611-679: the branch on the function call of the oracle's answer
AfterFunctionCall(tr, out) ==
    CASE out.kind = "book_single_appointment" ->
            Book([tr EXCEPT !.path = "single", !.queue = <<out.args>>])
      [] out.kind = "book_multiple_appointments" ->
            IF out.appointments = <<>>
            THEN Finish(tr, <<"sin_fechas">>, pending_confirmations)
            ELSE Book([tr EXCEPT !.path = "multiple",
                                 !.queue = [i \in 1..Len(out.appointments) |->
                                     Data(out.name, out.contact, out.appointments[i].date,
                                          out.appointments[i].time)]])
      [] OTHER -> Finish(tr, <<"herramienta_desconocida">>, pending_confirmations)

\* lines 600-726: the oracle answers `out`, and the turn branches on it
TurnOracle(t, out) ==
    LET tr == [gturns[t] EXCEPT !.bot_response = [kind |-> out.kind]] IN
    /\ NoneDone
    /\ tr.pc = "oracle"
    /\ Raises(out.kind = "raises")
    /\ gturns' = [gturns EXCEPT ![t] =
          CASE out.kind = "raises" -> Finish(tr, <<"puedes_repetir">>, pending_confirmations)
            [] out.kind = "empty" -> Finish(tr, <<"algo_salio_mal">>, pending_confirmations)
            [] out.kind = "text" ->
                  IF HasSummary(out)
                  THEN [tr EXCEPT !.pc = "save_pending", !.bot_response = out]
                  ELSE AfterText(tr, pending_confirmations)
            [] OTHER -> AfterFunctionCall(tr, out)]
    /\ UNCHANGED <<pending_confirmations, calendar, appointments, conversations, started, saves, clock, clockTicks, sent>>

\* lines 707-726: save_pending_confirmation (a failure is logged and swallowed), then
\* the test for a confirmation
TurnSavePending(t, raised) ==
    LET tr == gturns[t] IN
    /\ NoneDone
    /\ tr.pc = "save_pending"
    /\ Raises(raised)
    /\ pending_confirmations' =
          IF raised THEN pending_confirmations
          ELSE save_pending_confirmation(pending_confirmations, tr.phone,
                                         pending_data(tr.bot_response), saves + 1)
    /\ saves' = IF raised THEN saves ELSE saves + 1
    /\ gturns' = [gturns EXCEPT ![t] =
          AfterText([tr EXCEPT !.bot_response = [kind |-> "text"]], pending_confirmations')]
    /\ UNCHANGED <<calendar, appointments, conversations, started, clock, clockTicks, sent>>

\* the reply after the bookings of the turn
BookingReply(tr) ==
    IF tr.path = "multiple" THEN <<"agendamiento_multiple_completado">> \o tr.results
    ELSE tr.results

\* the reply when clear_pending_confirmation raises: the except clause around it
ClearFailedReply(tr) ==
    CASE tr.path = "single" -> <<"error_al_procesar_tu_cita">>
      [] tr.path = "multiple" -> <<"error_al_procesar_tus_citas">>
      [] OTHER -> <<"puedes_repetir">>

\* lines 634-635, 668-670, 723-724: clear_pending_confirmation, and the result is
\* returned
TurnClear(t, raised) ==
    LET tr == gturns[t] IN
    /\ NoneDone
    /\ tr.pc = "clear"
    /\ Raises(raised)
    /\ pending_confirmations' =
          IF raised THEN pending_confirmations
          ELSE clear_pending_confirmation(pending_confirmations, tr.phone)
    /\ gturns' = [gturns EXCEPT ![t] =
          IF raised THEN Finish(tr, ClearFailedReply(tr), pending_confirmations')
          ELSE Finish(tr, BookingReply(tr), pending_confirmations')]
    /\ UNCHANGED <<calendar, appointments, conversations, started, saves, clock, clockTicks, sent>>

InitBooking ==
    /\ pending_confirmations = [p \in Senders |-> NoPending]
    /\ calendar = <<>>
    /\ appointments = <<>>
    /\ conversations = [p \in Senders |-> [state |-> "none", user_preferences |-> <<>>]]
    /\ gturns = <<>>
    /\ started = 0
    /\ saves = 0
    /\ faults = 0
    /\ clock = ClockStart
    /\ clockTicks = 0
    /\ sent = 0

NextBooking ==
    \/ \E p \in Senders, msg \in messages, elapsed \in {0, ClockStep}, raised \in BOOLEAN :
            StartTurn(p, msg, elapsed, raised) /\ UNCHANGED <<bufferVars, runVars, callVars>>
    \/ \E t \in DOMAIN gturns, out \in OracleOutputs :
            TurnOracle(t, out) /\ UNCHANGED <<bufferVars, runVars, callVars>>
    \/ \E t \in DOMAIN gturns, raised \in BOOLEAN :
            TurnSavePending(t, raised) /\ UNCHANGED <<bufferVars, runVars, callVars>>
    \/ \E t \in DOMAIN gturns, outcome \in {"answers", "raises"} :
            BookingFreebusy(t, outcome) /\ UNCHANGED <<bufferVars, runVars, callVars>>
    \/ \E t \in DOMAIN gturns, outcome \in CreateOutcomes :
            BookingCreate(t, outcome) /\ UNCHANGED <<bufferVars, runVars, callVars>>
    \/ \E t \in DOMAIN gturns, raised \in BOOLEAN : BookingSave(t, raised) /\ UNCHANGED <<bufferVars, runVars, callVars>>
    \/ \E t \in DOMAIN gturns, raised \in BOOLEAN : TurnClear(t, raised) /\ UNCHANGED <<bufferVars, runVars, callVars>>
    \/ \E t \in DOMAIN gturns : TurnReturn(t) /\ UNCHANGED <<bufferVars, runVars, callVars>>

(***************************************************************************)
(* The functions of the booking, called one by one                         *)
(*                                                                         *)
(* A run is one call: the arguments, the time of the call and the events   *)
(* of the calendar are chosen at the start, and the step applies the       *)
(* function.                                                               *)
(***************************************************************************)
\* the days a call may name: from the Tuesday the run starts on to the next Monday
LastDay == 7

NoQuery == [fn |-> "none"]
NoAnswer == [done |-> FALSE]
Answer(value) == [done |-> TRUE, value |-> value]

\* start times: every hour and half hour of the days
StartTimes ==
    {d * MinutesPerDay + h * MinutesPerHour + m :
        d \in 1..LastDay, h \in 0..23, m \in {0, MinutesPerHour \div 2}}

\* datetime.now(TZ) at the call: Tuesday 09:00, Wednesday 10:00, Saturday 12:30
Nows ==
    {ClockStart,
     2 * MinutesPerDay + 10 * MinutesPerHour,
     5 * MinutesPerDay + 12 * MinutesPerHour + (MinutesPerHour \div 2)}

\* the events of the calendar at the call: none, Wednesday 10:00, Wednesday 10:30,
\* and the three hours of Saturday morning
Event(start) == [start |-> start, log |-> <<>>]
Calendars ==
    {<<>>,
     <<Event(2 * MinutesPerDay + 10 * MinutesPerHour)>>,
     <<Event(2 * MinutesPerDay + 10 * MinutesPerHour + (MinutesPerHour \div 2))>>,
     <<Event(5 * MinutesPerDay + 10 * MinutesPerHour),
       Event(5 * MinutesPerDay + 11 * MinutesPerHour),
       Event(5 * MinutesPerDay + 12 * MinutesPerHour)>>}

\* a Saturday that lists 13:00 as well
Slots_late(wd) ==
    CASE wd \in {1, 3} -> <<15, 16, 17, 18>>
      [] wd \in {2, 4} -> <<10, 11, 12, 13, 14, 15, 16, 17>>
      [] wd = 5 -> <<10, 11, 12, 13>>
      [] OTHER -> <<>>

\* lines 755-761: the slots of the weekday, as hours (every slot starts on the hour)
Slots(wd) ==
    CASE wd \in {1, 3} -> <<15, 16, 17, 18>>
      [] wd \in {2, 4} -> <<10, 11, 12, 13, 14, 15, 16, 17>>
      [] wd = 5 -> <<10, 11, 12>>
      [] OTHER -> <<>>

\* get_available_slots(date) at time nowv: the hours of the slots of the day that
\* start after nowv and that check_freebusy does not report busy; outcome: whether the
\* free/busy queries of the call answer or raise
get_available_slots(date, nowv, outcome) ==
    LET dt == (date \div MinutesPerDay) * MinutesPerDay
        Available(h) ==
            LET slot_dt == dt + h * MinutesPerHour IN
            /\ slot_dt > nowv
            /\ ~check_freebusy(outcome, slot_dt, slot_dt + MinutesPerHour)
    IN  IF weekday(dt) = 0 \/ weekday(dt) = 6 THEN <<>>
        ELSE SelectSeq(Slots(weekday(dt)), Available)

\* names and contacts a candidate may hold: strings without a line break in the
\* contact
Names ==
    {<<>>, <<" ", " ">>, Ana, <<" ", "A", "n", "a", " ">>, AnaSoto,
     <<"A", "\t", "S">>, <<"A", " ", " ", "S", " ", "o">>}
Contacts ==
    {<<>>, Phone8, Phone7, Email,
     <<"1", "2", "3", "4", "5", "6", "7", "8">>,
     <<"1", "2", "-", "3", "4", "-", "5", "6", "7", "8">>,
     <<"1", "2", "3", "4", "5", "6", "7", "a">>,
     <<"a", "@", "b">>,
     <<"a", "@", "b", ".", "c", "-">>,
     <<"a", ".", "b", "@", "c", "-", "b", ".", "o">>,
     <<"a", " ", "@", "b", ".", "c", "o">>}

Queries ==
    {[fn |-> "validate_business_hours", dt |-> dt] : dt \in StartTimes}
    \cup {[fn |-> "handle_appointment_booking",
           data |-> Data(name, contact, Date("iso", d), t)] :
            name \in Names, contact \in Contacts, d \in {2, LastDay},
            t \in {10 * MinutesPerHour, 10 * MinutesPerHour + (MinutesPerHour \div 2)}}
    \cup {[fn |-> "get_available_slots", date |-> d * MinutesPerDay + h * MinutesPerHour,
           outcome |-> o] :
            d \in 1..LastDay, h \in {0, 11}, o \in {"answers", "raises"}}

\* error = validate_business_hours(dt)
CallValidate ==
    /\ query.fn = "validate_business_hours"
    /\ answer = NoAnswer
    /\ answer' = Answer(validate_business_hours(query.dt, clock))
    /\ UNCHANGED query

\* slots = get_available_slots(date)
CallSlots ==
    /\ query.fn = "get_available_slots"
    /\ answer = NoAnswer
    /\ answer' = Answer(get_available_slots(query.date, clock, query.outcome))
    /\ UNCHANGED query

\* result = handle_appointment_booking(data), up to its free/busy query: the answer
\* is the turn as Book leaves it, at the query or with the reply returned before it
CallBooking ==
    /\ query.fn = "handle_appointment_booking"
    /\ answer = NoAnswer
    /\ answer' = Answer(Book([NewTurn EXCEPT !.phone = FirstSender, !.path = "single",
                                             !.queue = <<query.data>>]))
    /\ UNCHANGED query

NextCalls ==
    \/ CallValidate /\ UNCHANGED <<bufferVars, bookingVars, runVars>>
    \/ CallBooking /\ UNCHANGED <<bufferVars, bookingVars, runVars>>
    \/ CallSlots /\ UNCHANGED <<bufferVars, bookingVars, runVars>>

(***************************************************************************)
(* Specifications                                                          *)
(***************************************************************************)
\* turns of the senders overlap, and the messages confirm or hesitate
Init ==
    /\ InitBuffer
    /\ InitBooking
    /\ messages = {<<"Sí">>, <<"tal", "vez">>}
    /\ threads = MaxThreads
    /\ query = NoQuery
    /\ answer = NoAnswer

\* one turn at a time, and the messages are any of UserMessages
InitDialogue ==
    /\ InitBuffer
    /\ InitBooking
    /\ messages = UserMessages
    /\ threads = 1
    /\ query = NoQuery
    /\ answer = NoAnswer

\* one call of a function of the booking
InitCalls ==
    /\ InitBuffer
    /\ pending_confirmations = [p \in Senders |-> NoPending]
    /\ calendar \in Calendars
    /\ appointments = <<>>
    /\ conversations = [p \in Senders |-> [state |-> "none", user_preferences |-> <<>>]]
    /\ gturns = <<>>
    /\ started = 0
    /\ saves = 0
    /\ faults = 0
    /\ clock \in Nows
    /\ clockTicks = 0
    /\ sent = 0
    /\ messages = {}
    /\ threads = 0
    /\ query \in Queries
    /\ answer = NoAnswer

\* the message buffer
Spec == Init /\ [][NextBuffer]_vars

\* the booking orchestrator, turns overlapping
SpecBooking == Init /\ [][NextBooking]_vars

\* the booking orchestrator, turn after turn
SpecDialogue == InitDialogue /\ [][NextBooking]_vars

\* the functions of the booking, one call a run
SpecCalls == InitCalls /\ [][NextCalls]_vars

(***************************************************************************)
(* Claims on the message buffer                                            *)
(***************************************************************************)
\* the timers of phone p that are started, have not fired and are not cancelled
Scheduled(p) == {j \in 1..Len(timers) : timers[j].phone = p /\ timers[j].pc = "waiting"}

\* C1: in every reachable state and for every sender, at most one scheduled flush
\* timer (started, not fired, not cancelled) exists for that sender.
C1_AtMostOneScheduledTimer == \A p \in Senders : Cardinality(Scheduled(p)) <= 1

\* the messages of burst b appended so far, in arrival order
RECURSIVE InOrder(_)
InOrder(ms) ==
    IF ms = {} THEN <<>>
    ELSE LET m == CHOOSE x \in ms : \A y \in ms : enqueued[x].seq <= enqueued[y].seq
         IN  <<m>> \o InOrder(ms \ {m})
BurstLines(b) == InOrder({m \in DOMAIN enqueued : enqueued[m].burst = b})

\* C2: every combined message handed to generate_response is the join, in arrival
\* order, of all the messages of one burst (messages appended strictly within
\* BUFFER_DELAY of their predecessor), so that a burst is flushed exactly once.
C2_OneFlushPerBurst ==
    \A i \in 1..Len(turns) :
        turns[i].lines = BurstLines(enqueued[turns[i].lines[1]].burst)

(***************************************************************************)
(* Claims on the booking orchestrator                                      *)
(***************************************************************************)
\* the turns that have returned, with the reply in hand
Done == {t \in DOMAIN gturns : gturns[t].pc = "done"}

\* the turn has created a calendar event or an appointment
Created(tr) ==
    \/ tr.pc = "save_appointment"
    \/ \E i \in DOMAIN tr.results : tr.results[i] = "listo"

\* C3: every turn in which a calendar event or an appointment is created read a live
\* pending confirmation of its sender when it started, and its message is affirmative.
C3_CreatedOnlyOnConfirmation ==
    \A t \in DOMAIN gturns : Created(gturns[t]) => Confirms(gturns[t])

\* two appointments of one hour each overlap
SameSlot(a, b) ==
    /\ a.appointment_time < b.appointment_time + MinutesPerHour
    /\ b.appointment_time < a.appointment_time + MinutesPerHour

\* C4: as long as no call has raised, no two appointments of different senders (each
\* with its calendar event) are in the same one-hour slot.
C4_NoDoubleBooking ==
    faults = 0 =>
        \A i, j \in DOMAIN appointments :
            appointments[i].phone # appointments[j].phone
                => ~SameSlot(appointments[i], appointments[j])

\* C5: as long as no call has raised, no two appointments are booked from the same
\* stored pending confirmation.
C5_OneBookingPerPending ==
    faults = 0 =>
        \A i, j \in DOMAIN appointments :
            (i # j /\ appointments[i].pending # 0)
                => appointments[i].pending # appointments[j].pending

\* C6: every appointment was saved after, in its booking attempt and in this order,
\* validate_business_hours accepted its start, check_freebusy reported no conflict for
\* the hour from its start, and the calendar event of that start was created.
C6_AppointmentAfterChecks ==
    \A i \in DOMAIN appointments :
        LET a == appointments[i] IN
        /\ a.log = <<[call |-> "validate_business_hours", result |-> "ok"],
                     [call |-> "check_freebusy", result |-> "free"],
                     [call |-> "create_appointment", result |-> "created"]>>
        /\ validate_business_hours(a.appointment_time, ClockStart) = "ok"
        /\ \E e \in DOMAIN calendar :
              /\ calendar[e].start = a.appointment_time
              /\ calendar[e].log = SubSeq(a.log, 1, 2)
        /\ a.google_event_id # 0 => calendar[a.google_event_id].start = a.appointment_time

\* an appointment booked from a pending confirmation, and one booked from a function
\* call of the oracle
C6_Witness ==
    /\ \E i \in DOMAIN appointments : appointments[i].pending # 0
    /\ \E i \in DOMAIN appointments : appointments[i].pending = 0

IsNegative(msg) ==
    \E i \in 1..Len(msg) : lower(msg[i]) \in {"no", "cancelar", "cambiar"}

\* C8: whenever a turn that read a live pending confirmation and has a negative
\* message has completed with a text reply of the oracle and no call has raised, the
\* store holds no pending confirmation of the sender.
C8_NegativeReplyClears ==
    \A t \in Done :
        LET tr == gturns[t] IN
        (/\ tr.pending # NoPending
         /\ IsNegative(tr.user_message)
         /\ tr.bot_response.kind = "text"
         /\ faults = 0)
            => tr.atEnd = NoPending

\* the candidate of a row of the store with its expiry
Candidate(row) ==
    IF row = NoPending THEN <<>> ELSE <<row.appointment_data, row.expires_at>>

\* C9: a step of a turn that read a live pending confirmation and whose message is
\* neither affirmative nor negative leaves the stored candidate of its sender and its
\* expiry as they are.
C9_AmbiguousReplyLeavesPending ==
    [][\A t \in DOMAIN gturns :
        LET tr == gturns[t] IN
        (/\ t \in DOMAIN gturns'
         /\ gturns'[t] # tr
         /\ tr.pc # "done"
         /\ tr.pending # NoPending
         /\ ~IsAffirmative(tr.user_message)
         /\ ~IsNegative(tr.user_message)
         /\ tr.bot_response.kind \in {"none", "text"})
            => Candidate(pending_confirmations'[tr.phone])
                    = Candidate(pending_confirmations[tr.phone])]_vars

\* C10: every stored pending confirmation holds a candidate that passes the checks of
\* name, contact, date and time, and whose start validate_business_hours accepted when
\* it was stored.
C10_PendingOnlyIfValid ==
    \A p \in Senders :
        LET row == pending_confirmations[p] IN
        row # NoPending =>
            /\ FieldCheck(row.appointment_data) = "ok"
            /\ validate_business_hours(AppointmentTime(row.appointment_data),
                                       row.expires_at - PENDING_TTL) = "ok"

(***************************************************************************)
(* Claims on the booking orchestrator, turn after turn                     *)
(***************************************************************************)
\* turn t takes the step
Acts(t) == t \in DOMAIN gturns /\ Len(gturns') = Len(gturns) /\ gturns'[t] # gturns[t]

\* the step is taken without a call raising
NoRaise == faults' = faults

\* the stored candidate is the one the summary shows
Shown(data, summary) ==
    /\ data.name = summary.name
    /\ data.contact = summary.contact
    /\ data.date.day = summary.date.day
    /\ data.time = summary.time

\* C11: when a turn saves the pending confirmation of a reply that presents a summary
\* and asks for confirmation, and the save does not raise, the store holds under the
\* sender's key the candidate the summary shows: same name, contact, date and time.
C11_StoreHoldsSummary ==
    [][\A t \in DOMAIN gturns :
        (Acts(t) /\ gturns[t].pc = "save_pending" /\ NoRaise)
            => /\ pending_confirmations'[gturns[t].phone] # NoPending
               /\ Shown(pending_confirmations'[gturns[t].phone].appointment_data,
                        gturns[t].bot_response.summary)]_vars

\* the turn generate_response starts in this step
Starts(tr) == Len(gturns') = Len(gturns) + 1 /\ tr = gturns'[Len(gturns')]

\* C12: the pending confirmation a turn reads at its start is the stored row of the
\* sender while the time of the read is before the row's expiry (the time of the save
\* plus PENDING_TTL), and none otherwise; and a turn takes the path that books the
\* pending candidate only before that expiry, so an affirmative message that arrives
\* after it is answered as a turn without a pending confirmation.
C12_ExpiredIsAbsent ==
    [][/\ \A tr \in {gturns'[i] : i \in DOMAIN gturns'} :
            (Starts(tr) /\ tr.pc = "oracle")
                => LET row == pending_confirmations[tr.phone] IN
                   tr.pending = IF row # NoPending /\ clock' < row.expires_at
                                THEN row ELSE NoPending
       /\ \A t \in DOMAIN gturns :
            (Acts(t) /\ gturns[t].path # "pending" /\ gturns'[t].path = "pending")
                => clock < gturns[t].pending.expires_at]_vars

\* an affirmative message, after the expiry of the sender's stored row, was answered
\* with the oracle's text and nothing was booked from the row
C12_Witness ==
    \E t \in DOMAIN gturns :
        /\ gturns[t].pc = "done"
        /\ IsAffirmative(gturns[t].user_message)
        /\ gturns[t].pending = NoPending
        /\ gturns[t].atEnd # NoPending
        /\ gturns[t].atEnd.expires_at <= clock
        /\ gturns[t].reply = <<"bot_response">>
        /\ \A i \in DOMAIN appointments : appointments[i].pending # gturns[t].atEnd.id

\* C13: the store holds one row per sender at most, and a step changes the row of a
\* sender in two ways only: a save of the turn of that sender, after which the row is
\* the candidate of that save and nothing else, with the expiry PENDING_TTL after the
\* time of the save, whatever the row was before; or a clear, after which there is no
\* row. A clear that does not raise leaves no row, whatever the row was before.
C13_SaveReplacesClearDeletes ==
    [][/\ \A p \in Senders :
            pending_confirmations'[p] # pending_confirmations[p]
                => \/ pending_confirmations'[p] = NoPending
                   \/ \E t \in DOMAIN gturns :
                        /\ Acts(t)
                        /\ gturns[t].pc = "save_pending"
                        /\ gturns[t].phone = p
                        /\ pending_confirmations'[p].appointment_data
                               = pending_data(gturns[t].bot_response)
                        /\ pending_confirmations'[p].expires_at = clock + PENDING_TTL
       /\ \A t \in DOMAIN gturns :
            (Acts(t) /\ gturns[t].pc = "clear" /\ NoRaise)
                => pending_confirmations'[gturns[t].phone] = NoPending]_vars

\* a turn read a pending confirmation at its start and saved another candidate over
\* it, later: the stored row has the candidate and the expiry of the second save
C13_Witness ==
    \E t \in DOMAIN gturns :
        LET tr == gturns[t] IN
        /\ tr.pc = "done"
        /\ tr.pending # NoPending
        /\ tr.atEnd # NoPending
        /\ tr.atEnd = pending_confirmations[tr.phone]
        /\ tr.atEnd.id # tr.pending.id
        /\ tr.atEnd.appointment_data # tr.pending.appointment_data
        /\ tr.atEnd.expires_at > tr.pending.expires_at

\* the message names a condition of the list of complex medical cases
IsCritical(msg) ==
    \E i \in 1..Len(msg) : lower(msg[i]) \in {"embarazada", "embarazo"}

\* C14: a turn whose message names a critical condition ("estoy embarazada") never
\* waits for the oracle nor holds an answer of the oracle, and the reply it completes
\* with is the fixed handoff message.
C14_CriticalSkipsOracle ==
    \A t \in DOMAIN gturns :
        IsCritical(gturns[t].user_message)
            => /\ gturns[t].pc # "oracle"
               /\ gturns[t].bot_response = NoOracle
               /\ gturns[t].pc = "done" => gturns[t].reply = <<"derivar_al_quiropractico">>

\* C15: when the free/busy query of a booking attempt raises, the slot is taken as not
\* available: the attempt does not go on to create_appointment.
C15_FailedQueryIsBusy ==
    [][\A t \in DOMAIN gturns :
        (Acts(t) /\ gturns[t].pc = "check_freebusy" /\ ~NoRaise)
            => gturns'[t].pc # "create_appointment"]_vars

\* C16: every appointment row holds the id of a calendar event: when create_appointment
\* raises or returns no id, save_appointment is not called for the attempt.
C16_NoAppointmentWithoutEventId ==
    \A i \in DOMAIN appointments : appointments[i].google_event_id \in DOMAIN calendar

\* the result of the booking attempt turn t ends in this step
AttemptResult(t) == gturns'[t].results[Len(gturns[t].results) + 1]

\* C17: when save_appointment raises after the calendar event of the attempt was
\* created, the result of the attempt is neither the success reply nor the reply given
\* when create_appointment failed.
C17_StorageFailureDistinct ==
    [][\A t \in DOMAIN gturns :
        (Acts(t) /\ gturns[t].pc = "save_appointment" /\ ~NoRaise)
            => AttemptResult(t) \notin {"listo", "error_al_agendar"}]_vars

\* C18: in a turn that books the pairs of book_multiple_appointments, every step
\* before the reply keeps the outcomes so far and moves pairs from the list to the
\* outcomes, one outcome per pair and in the order of the list, whatever the outcomes
\* are; and the turn replies when the list is empty, with the outcomes of all pairs in
\* that order.
C18_OneOutcomePerPair ==
    [][\A t \in DOMAIN gturns :
        (Acts(t) /\ gturns[t].path = "multiple")
            => IF gturns'[t].pc = "done"
               THEN /\ gturns[t].queue = <<>>
                    /\ gturns'[t].reply = BookingReply(gturns[t])
               ELSE /\ Len(gturns'[t].results) + Len(gturns'[t].queue)
                           = Len(gturns[t].results) + Len(gturns[t].queue)
                    /\ SubSeq(gturns'[t].results, 1, Len(gturns[t].results))
                           = gturns[t].results]_vars

\* C19: when the first turn of a run has completed after the oracle call raised or the
\* oracle returned no candidates, the reply asks to repeat and the turn has written
\* nothing: conversation states, pending confirmations and appointments are as they
\* were when the turn started.
C19_FailedOracleWritesNothing ==
    \A t \in Done :
        (started = 1 /\ gturns[t].bot_response.kind \in {"raises", "empty"})
            => /\ gturns[t].reply \in {<<"puedes_repetir">>, <<"algo_salio_mal">>}
               /\ \A p \in Senders :
                    /\ conversations[p] = [state |-> "none", user_preferences |-> <<>>]
                    /\ pending_confirmations[p] = NoPending
               /\ appointments = <<>>

\* the timer thread is past the with block of process_buffered_messages: it saves the
\* incoming message, calls generate_response, or saves and sends the reply
Processing(j) == timers[j].pc \in {"save_incoming", "generate", "deliver"}

\* C20: no session lock is held by a thread that saves a message, generates the
\* response or delivers it: a lock is held by a request handler in its
\* append-and-reschedule block or by a timer thread in its drain-and-clear block only.
C20_LockFreeWhileProcessing ==
    /\ \A j \in 1..Len(timers) :
        Processing(j) => \A s \in 1..Len(sessions) : sessions[s].lock # TimerThread(j)
    /\ \A s \in 1..Len(sessions) :
        LET holder == sessions[s].lock IN
        /\ holder.kind = "handler" => handlers[holder.id].pc = "critical"
        /\ holder.kind = "timer" => timers[holder.id].pc = "critical"

\* a request handler holds the lock of its sender's session and enqueues while a timer
\* thread is still processing an earlier turn of that sender from the same session
C20_Witness ==
    \E j \in 1..Len(timers), h \in 1..Len(handlers) :
        /\ Processing(j)
        /\ handlers[h].phone = timers[j].phone
        /\ handlers[h].session = timers[j].session
        /\ handlers[h].pc = "critical"
        /\ sessions[handlers[h].session].lock = HandlerThread(h)

(***************************************************************************)
(* Claims on the idle sweep, the flush and the order of turns              *)
(***************************************************************************)
\* the session object timer j was scheduled for: the session of the request handler
\* that started it (the j-th enqueue starts the j-th timer)
ScheduledFor(j) ==
    handlers[CHOOSE h \in DOMAIN enqueued : enqueued[h].seq = j].session

\* C21: cleanup_old_sessions cancels the live timer of each session it removes, so the
\* callback of a timer never runs against the registry after the removal of the session
\* it was scheduled for: the session a callback looks up and drains is the session
\* object its timer was scheduled for, not a session re-created under the same key.
C21_CallbackUsesItsSession ==
    \A j \in 1..Len(timers) :
        timers[j].session # 0 => timers[j].session = ScheduledFor(j)

\* message m was handed to generate_response in a turn
Flushed(m) == \E i \in 1..Len(turns) : \E k \in 1..Len(turns[i].lines) : turns[i].lines[k] = m

\* every later enqueue of the sender of m comes BUFFER_DELAY or more after m
GapAfter(m) ==
    \A k \in DOMAIN enqueued :
        (enqueued[k].phone = enqueued[m].phone /\ enqueued[k].seq > enqueued[m].seq)
            => enqueued[k].at - enqueued[m].at >= BUFFER_DELAY

\* C22: a message enqueued and followed by a gap of BUFFER_DELAY without an enqueue of
\* its sender is flushed in the end: once every request is handled and every timer has
\* run its callback or is cancelled, so that nothing is left that could flush it,
\* the message has been handed to generate_response in a turn.
C22_EnqueuedIsFlushed ==
    Quiescent => \A m \in DOMAIN enqueued : GapAfter(m) => Flushed(m)

\* C23: every turn that has started is in progress or has ended with one call of
\* send_whatsapp_message, no more and no less, whatever the oracle, the calendar and
\* the database answered or raised; and the reply a turn has in hand when
\* generate_response returns is a reply string, never nothing.
C23_OneReplyPerTurn ==
    /\ sent + Len(gturns) = started
    /\ \A t \in Done : gturns[t].reply # <<>>

\* all the turns of a run have ended and sent their reply, one of them after a call
\* raised, another after it booked an appointment
C23_Witness ==
    /\ started = MaxTurns
    /\ sent = MaxTurns
    /\ faults > 0
    /\ appointments # <<>>

(***************************************************************************)
(* Claims on the functions of the booking                                  *)
(***************************************************************************)
\* the opening hours of the clinic: Tue/Thu 15-19, Wed/Fri 10-18, Sat 10-13, and
\* closed on Sunday and Monday
OpenAt(dt) ==
    CASE weekday(dt) \in {1, 3} -> 15 <= hour(dt) /\ hour(dt) < 19
      [] weekday(dt) \in {2, 4} -> 10 <= hour(dt) /\ hour(dt) < 18
      [] weekday(dt) = 5 -> 10 <= hour(dt) /\ hour(dt) < 13
      [] OTHER -> FALSE

\* C24: validate_business_hours accepts a start time if and only if it is strictly
\* after now and its hour lies in the opening hours of its weekday; a start time equal
\* to now is rejected.
C24_AcceptsFutureOpenHours ==
    (query.fn = "validate_business_hours" /\ answer.done)
        => (answer.value = "ok" <=> (query.dt > clock /\ OpenAt(query.dt)))

\* C25: get_available_slots(date) returns, in ascending order, exactly the hours of the
\* day of `date` that lie in the opening hours of its weekday, start after now and for
\* which the conflict check over the hour from the start reports no conflict; for a
\* closed day and for a day whose slots all conflict the list is empty.
C25_SlotsOpenFutureFree ==
    (query.fn = "get_available_slots" /\ answer.done)
        => LET slots == answer.value
               day == (query.date \div MinutesPerDay) * MinutesPerDay
               start(h) == day + h * MinutesPerHour
           IN  /\ \A i, j \in 1..Len(slots) : i < j => slots[i] < slots[j]
               /\ {slots[i] : i \in 1..Len(slots)}
                    = {h \in 0..23 :
                        /\ OpenAt(start(h))
                        /\ start(h) > clock
                        /\ ~check_freebusy(query.outcome, start(h),
                                           start(h) + MinutesPerHour)}

\* on a Wednesday at 10:00, with an event from 10:30 to 11:30, the slots of the day
\* are listed from 12:00: the slot of 10:00 has started and the slot of 11:00 is busy
C25_Witness ==
    /\ query.fn = "get_available_slots"
    /\ answer.done
    /\ query.outcome = "answers"
    /\ Len(answer.value) > 0
    /\ answer.value[1] = 12
    /\ weekday(query.date) = 2
    /\ clock = 2 * MinutesPerDay + 10 * MinutesPerHour
    /\ Busy(query.date, query.date + MinutesPerDay) # {}

\* the whitespace-separated tokens of a name, counted by their last characters
NameTokens(name) ==
    Cardinality({i \in 1..Len(name) :
                    /\ name[i] \notin Whitespace
                    /\ (i = Len(name) \/ name[i + 1] \in Whitespace)})

\* the contact less '+', spaces and hyphens is eight digits or more
PhoneShaped(contact) ==
    LET kept == {i \in 1..Len(contact) : contact[i] \notin {"+", " ", "-"}} IN
    Cardinality(kept) >= 8 /\ \A i \in kept : contact[i] \in Digits

\* the contact is local@domain.tld
EmailShaped(contact) ==
    \E local, domain, tld \in 1..Len(contact) :
        LET allowed(lo, hi, chars) == \A i \in lo..hi : contact[i] \in chars IN
        /\ local + 1 + domain + 1 + tld = Len(contact)
        /\ contact[local + 1] = "@"
        /\ contact[local + 1 + domain + 1] = "."
        /\ allowed(1, local, WordChars \cup {".", "-"})
        /\ allowed(local + 2, local + 1 + domain, WordChars \cup {".", "-"})
        /\ allowed(local + domain + 3, Len(contact), WordChars)

\* C26: handle_appointment_booking returns the reply that asks for name and surname for
\* every candidate whose name has fewer than two tokens, and the reply that asks for a
\* phone or an email for every other candidate whose contact is neither phone-shaped
\* nor email-shaped, both without going on to the availability check (and so to
\* create_appointment and save_appointment); a candidate that passes both rules gets
\* neither reply.
C26_FieldRulesReject ==
    (query.fn = "handle_appointment_booking" /\ answer.done)
        => LET data == query.data
               tr == answer.value
               badName == NameTokens(data.name) < 2
               badContact == ~(PhoneShaped(data.contact) \/ EmailShaped(data.contact))
           IN  /\ badName => tr.pc = "clear" /\ tr.results = <<"nombre_y_apellido">>
               /\ (~badName /\ badContact)
                    => tr.pc = "clear" /\ tr.results = <<"telefono_o_email">>
               /\ (~badName /\ ~badContact)
                    => \A i \in 1..Len(tr.results) :
                          tr.results[i] \notin {"nombre_y_apellido", "telefono_o_email"}

\* a candidate with name and surname and a phone of seven digits was rejected before
\* the availability check
C26_Witness ==
    /\ query.fn = "handle_appointment_booking"
    /\ answer.done
    /\ query.data.name = AnaSoto
    /\ query.data.contact = Phone7
    /\ answer.value.pc = "clear"
    /\ answer.value.results = <<"telefono_o_email">>

\* C27: the callback of a timer that an enqueue has replaced (the session refers to
\* another timer when the callback is in its with block) returns early on an empty
\* buffer: it drains no line and leaves the session's reference to the new timer as
\* it is.
C27_ReplacedCallbackIsNoOp ==
    [][\A j \in 1..Len(timers) :
        LET s == timers[j].session IN
        (/\ timers[j].pc = "critical"
         /\ timers'[j].pc # "critical"
         /\ sessions[s].timer \notin {0, j})
            => /\ timers'[j].pc = "done"
               /\ sessions'[s].messages = sessions[s].messages
               /\ sessions'[s].timer = sessions[s].timer]_vars

\* C28: a callback that finds the buffer of its session non-empty takes all its lines,
\* in their order, and leaves the buffer empty and the timer reference null, in the one
\* critical section; a callback that finds it empty ends there, with the buffer and the
\* timer reference as they were and no call of generate_response, and no thread
\* saves, generates or delivers for an empty turn.
C28_FlushAtomicNoOpOnEmpty ==
    [][/\ \A j \in 1..Len(timers) :
            LET s == timers[j].session IN
            (timers[j].pc = "critical" /\ timers'[j].pc # "critical")
                => IF sessions[s].messages # <<>>
                   THEN /\ timers'[j].combined = sessions[s].messages
                        /\ sessions'[s].messages = <<>>
                        /\ sessions'[s].timer = 0
                   ELSE /\ timers'[j].pc = "done"
                        /\ sessions'[s].messages = <<>>
                        /\ sessions'[s].timer = sessions[s].timer
                        /\ turns' = turns
       /\ \A j \in 1..Len(timers') :
            timers'[j].pc \in {"save_incoming", "generate", "deliver"}
                => timers'[j].combined # <<>>
       /\ \A i \in 1..Len(turns') : turns'[i].lines # <<>>]_vars

\* a callback has found the buffer empty and ended, and another has taken two lines
\* at once
C28_Witness ==
    /\ \E j \in 1..Len(timers) :
        timers[j].pc = "done" /\ timers[j].session # 0 /\ timers[j].combined = <<>>
    /\ \E k \in 1..Len(timers) : Len(timers[k].combined) >= 2

\* the places of message m in the turns handed to generate_response
Places(m) ==
    {<<i, k>> \in (1..Len(turns)) \X (1..MaxMsgs) :
        k <= Len(turns[i].lines) /\ turns[i].lines[k] = m}

\* C29: no message is duplicated or lost: a line appended by an enqueue is in one turn
\* at most, and once every request is handled and every timer has run its callback or
\* is cancelled, it is in exactly one turn.
C29_EveryLineInOneTurn ==
    \A m \in DOMAIN enqueued :
        /\ Cardinality(Places(m)) <= 1
        /\ Quiescent => Cardinality(Places(m)) = 1

\* C30: the turns of one sender do not overlap: no two timer threads of the same sender
\* are at the same time past their with block and before the end of the delivery, so
\* that the turn flushed first is saved, answered and delivered before the next one.
C30_TurnsOfSenderDoNotOverlap ==
    \A j, k \in 1..Len(timers) :
        (j # k /\ timers[j].phone = timers[k].phone) => ~(Processing(j) /\ Processing(k))

\* C31: the slots get_available_slots lists and the start times the booking accepts
\* agree: every slot listed for a day is a start time validate_business_hours accepts,
\* and every start time handle_appointment_booking accepts and finds free, and so
\* books, is the start of one of the hourly slots of its weekday.
C31_SlotsAndHoursAgree ==
    /\ (query.fn = "get_available_slots" /\ answer.done)
        => LET day == (query.date \div MinutesPerDay) * MinutesPerDay IN
           \A i \in 1..Len(answer.value) :
               validate_business_hours(day + answer.value[i] * MinutesPerHour, clock)
                   = "ok"
    /\ (query.fn = "handle_appointment_booking" /\ answer.done)
        => LET dt == AppointmentTime(query.data)
               day == (dt \div MinutesPerDay) * MinutesPerDay
               slots == Slots(weekday(dt))
           IN  (/\ answer.value.pc = "check_freebusy"
                /\ ~check_freebusy("answers", dt, dt + MinutesPerHour))
                   => \E i \in 1..Len(slots) : dt = day + slots[i] * MinutesPerHour

====
